---- MODULE Spec2Model ----
(***************************************************************************)
(* Model of the event repository's cursor-paginated List                   *)
(* (internal/repository, eventRepo) and of the service and store           *)
(* operations that feed it.                                                *)
(*                                                                         *)
(* Strings are sequences of character codes, compared lexicographically.   *)
(* A dynamically typed value (a Firestore field, a cursor entry, a JSON    *)
(* value) is a record [k |-> kind, v |-> payload] with kind "num", "time"  *)
(* or "str"; the payload is always a sequence of naturals: <<n>> for a     *)
(* number or a time instant, the characters for a string.                  *)
(***************************************************************************)
EXTENDS Integers, Sequences, FiniteSets, TLC

VARIABLES store, search, resp, phase, pages, issuedPlan, repoCall, http, storeFault,
          requests, stable, functionHandler, initOnce, pc, appEnv, setupRuns

vars == <<store, search, resp, phase, pages, issuedPlan, repoCall, http, storeFault,
          requests, stable, functionHandler, initOnce, pc, appEnv, setupRuns>>

\* the variables of the entry point (package function)
entryVars == <<functionHandler, initOnce, pc, appEnv, setupRuns>>

\* the variables of the repository, the service and the transport layer
coreVars ==
    <<store, search, resp, phase, pages, issuedPlan, repoCall, http, storeFault,
      requests, stable>>

----------------------------------------------------------------------------
(* Bounds and program constants *)

\* number of document ids the model draws from
MaxEvents == 4

\* number of requests that arrive at the entry point
MaxRequests == 3

\* default page size, part_009:181
DefaultLimit == 20

\* hard cap of the page size, part_009:184
MaxLimit == 100

\* the code point of lastUtf8Char (U+F8FF), part_009:155
lastUtf8Char == 63743

\* a character above lastUtf8Char
HighCh == lastUtf8Char + 1

\* the character that marks the RFC3339 text of a time instant
TimeCh == 9

\* the page size above which eventService.ListEvents caps the request,
\* event_service.go:71
ServiceMaxPageSize == 100

----------------------------------------------------------------------------
(* Values *)

Num(n) == [k |-> "num", v |-> <<n>>]

Time(t) == [k |-> "time", v |-> <<t>>]

Str(s) == [k |-> "str", v |-> s]

RECURSIVE SeqLess(_, _)
\* lexicographic order of two sequences of naturals
SeqLess(a, b) ==
    IF b = <<>> THEN FALSE
    ELSE IF a = <<>> THEN TRUE
    ELSE IF Head(a) # Head(b) THEN Head(a) < Head(b)
    ELSE SeqLess(Tail(a), Tail(b))

\* Firestore's order of value types: numbers < timestamps < strings
TypeRank(x) == CASE x.k = "num" -> 1 [] x.k = "time" -> 2 [] OTHER -> 3

\* Firestore's order of two values (types first, then the value)
ValLess(x, y) ==
    IF TypeRank(x) # TypeRank(y) THEN TypeRank(x) < TypeRank(y)
    ELSE SeqLess(x.v, y.v)

\* time.Time.MarshalJSON: the RFC3339 text of an instant
FormatTime(t) == <<TimeCh, t>>

\* does time.Parse(time.RFC3339, s) succeed
ParsesAsTime(s) == Len(s) = 2 /\ s[1] = TimeCh

\* the instant time.Parse(time.RFC3339, s) returns
ParseTime(s) == s[2]

----------------------------------------------------------------------------
(* The planner: eventRepo.List, steps 1 to 3 *)

\* the sort keys List accepts
validSorts == {"created_at", "price", "start_time", "event_name", "city", "end_time"}

\* the fields whose cursor values List parses back into times
TemporalFields == {"created_at", "start_time", "end_time"}

\* inequalityFields that takes a minimum price of 0 for no filter
inequalityFields_ZeroIsUnset(f) ==
    (IF f.EventName # <<>> THEN <<"event_name">> ELSE <<>>)
    \o (IF f.City # <<>> THEN <<"city">> ELSE <<>>)
    \o (IF (f.MinPrice # <<>> /\ f.MinPrice # <<0>>) \/ f.MaxPrice # <<>>
        THEN <<"price">> ELSE <<>>)
    \o (IF f.StartDate # <<>> THEN <<"start_time">> ELSE <<>>)
    \o (IF f.EndDate # <<>> THEN <<"end_time">> ELSE <<>>)

\* step 1: the fields under an active range filter, in the order List appends them
inequalityFields(f) ==
    (IF f.EventName # <<>> THEN <<"event_name">> ELSE <<>>)
    \o (IF f.City # <<>> THEN <<"city">> ELSE <<>>)
    \o (IF f.MinPrice # <<>> \/ f.MaxPrice # <<>> THEN <<"price">> ELSE <<>>)
    \o (IF f.StartDate # <<>> THEN <<"start_time">> ELSE <<>>)
    \o (IF f.EndDate # <<>> THEN <<"end_time">> ELSE <<>>)

\* the set of elements of a sequence
Range(s) == {s[i] : i \in DOMAIN s}

\* a primary sort without the validSorts fallback
primarySort_NoFallback(f, reqSort) ==
    LET ineq == inequalityFields(f)
    IN  IF Len(ineq) > 0 /\ reqSort \notin Range(ineq) THEN ineq[1] ELSE reqSort

\* step 2 and the validSorts fallback of step 3
primarySort(f, reqSort) ==
    LET ineq == inequalityFields(f)
        forced == IF Len(ineq) > 0 /\ reqSort \notin Range(ineq)
                  THEN ineq[1] ELSE reqSort
    IN  IF forced \in validSorts THEN forced ELSE "created_at"

\* sortFields without the secondary sort of the requested key
sortFields_NoSecondary(f, reqSort) == <<primarySort(f, reqSort), "id">>

\* step 3: the plan, the list of fields the query is ordered by
sortFields(f, reqSort) ==
    LET p == primarySort(f, reqSort)
    IN  <<p>>
        \o (IF p # reqSort /\ reqSort # "" /\ reqSort \in validSorts
            THEN <<reqSort>> ELSE <<>>)
        \o <<"id">>

\* a direction that id follows like every other field
fieldDir_IdFollows(field, SortDirection) ==
    IF SortDirection = "desc" THEN "desc" ELSE "asc"

\* step 4: the direction of one field of the plan ("id" is always ascending)
fieldDir(field, SortDirection) ==
    IF field = "id" THEN "asc"
    ELSE IF SortDirection = "desc" THEN "desc" ELSE "asc"

\* step 4: the OrderBy clauses of the query, one per plan field
orderBy(fields, SortDirection) ==
    [i \in 1..Len(fields) |->
        [field |-> fields[i], dir |-> fieldDir(fields[i], SortDirection)]]

\* an effective page size without the hard cap
limit_NoCap(PageSize) == IF PageSize <= 0 THEN DefaultLimit ELSE PageSize

\* step 6: the effective page size
limit(PageSize) ==
    IF PageSize <= 0 THEN DefaultLimit
    ELSE IF PageSize > MaxLimit THEN MaxLimit
    ELSE PageSize

----------------------------------------------------------------------------
(* Documents and events *)

\* the fields of a stored event document
DocFields == {"id", "event_name", "city", "type", "price", "start_time",
              "end_time", "created_at"}

\* the document Save writes for an event (the struct's firestore tags)
ToDoc(e) ==
    [id |-> e.Id, event_name |-> e.EventName, city |-> e.City, type |-> e.Type,
     price |-> e.Price, start_time |-> e.StartTime, end_time |-> e.EndTime,
     created_at |-> e.CreatedAt]

\* the zero value DataTo leaves in a struct field the document lacks
ZeroOf(field) ==
    IF field = "price" THEN Num(0)
    ELSE IF field \in TemporalFields THEN Time(0)
    ELSE Str(<<>>)

\* doc.DataTo(&e): the event read back from a document
DataTo(doc) ==
    LET get(field) == IF field \in DOMAIN doc THEN doc[field] ELSE ZeroOf(field)
    IN  [Id |-> get("id"), EventName |-> get("event_name"), City |-> get("city"),
         Type |-> get("type"), Price |-> get("price"),
         StartTime |-> get("start_time"), EndTime |-> get("end_time"),
         CreatedAt |-> get("created_at")]

----------------------------------------------------------------------------
(* The store's query engine, as List drives it *)

\* q.Where(field, op, val): a document matches when it holds the field with a
\* value of the operand's type that satisfies the comparison
Where(doc, field, op, val) ==
    /\ field \in DOMAIN doc
    /\ doc[field].k = val.k
    /\ CASE op = ">=" -> ~ValLess(doc[field], val)
         [] op = "<=" -> ~ValLess(val, doc[field])
         [] OTHER -> doc[field] = val

\* ApplyFilters without the MaxPrice clause
ApplyFilters_NoMaxPrice(doc, f) ==
    /\ f.EventName # <<>> =>
          /\ Where(doc, "event_name", ">=", Str(f.EventName))
          /\ Where(doc, "event_name", "<=", Str(f.EventName \o <<lastUtf8Char>>))
    /\ f.City # <<>> =>
          /\ Where(doc, "city", ">=", Str(f.City))
          /\ Where(doc, "city", "<=", Str(f.City \o <<lastUtf8Char>>))
    /\ f.Type # <<>> => Where(doc, "type", "==", Str(f.Type))
    /\ f.MinPrice # <<>> => Where(doc, "price", ">=", Num(f.MinPrice[1]))
    /\ f.StartDate # <<>> => Where(doc, "start_time", ">=", Time(f.StartDate[1]))
    /\ f.EndDate # <<>> => Where(doc, "end_time", "<=", Time(f.EndDate[1]))

\* step 5: the filters List adds to the query
ApplyFilters(doc, f) ==
    /\ f.EventName # <<>> =>
          /\ Where(doc, "event_name", ">=", Str(f.EventName))
          /\ Where(doc, "event_name", "<=", Str(f.EventName \o <<lastUtf8Char>>))
    /\ f.City # <<>> =>
          /\ Where(doc, "city", ">=", Str(f.City))
          /\ Where(doc, "city", "<=", Str(f.City \o <<lastUtf8Char>>))
    /\ f.Type # <<>> => Where(doc, "type", "==", Str(f.Type))
    /\ f.MinPrice # <<>> => Where(doc, "price", ">=", Num(f.MinPrice[1]))
    /\ f.MaxPrice # <<>> => Where(doc, "price", "<=", Num(f.MaxPrice[1]))
    /\ f.StartDate # <<>> => Where(doc, "start_time", ">=", Time(f.StartDate[1]))
    /\ f.EndDate # <<>> => Where(doc, "end_time", "<=", Time(f.EndDate[1]))

RECURSIVE TupleBefore(_, _, _, _)
\* does tuple a come strictly before tuple b under the OrderBy clauses
\* (fields, each in its direction)
TupleBefore(a, b, fields, SortDirection) ==
    IF fields = <<>> THEN FALSE
    ELSE IF Head(a) = Head(b)
         THEN TupleBefore(Tail(a), Tail(b), Tail(fields), SortDirection)
         ELSE IF fieldDir(Head(fields), SortDirection) = "asc"
              THEN ValLess(Head(a), Head(b))
              ELSE ValLess(Head(b), Head(a))

\* the values of a document at the OrderBy fields
DocTuple(doc, fields) == [i \in 1..Len(fields) |-> doc[fields[i]]]

\* the store's order of two documents: the OrderBy fields, then the document
\* key in the direction of the last OrderBy
DocBefore(st, k1, k2, fields, SortDirection) ==
    LET t1 == DocTuple(st[k1], fields)
        t2 == DocTuple(st[k2], fields)
    IN  IF t1 # t2 THEN TupleBefore(t1, t2, fields, SortDirection)
        ELSE IF fieldDir(fields[Len(fields)], SortDirection) = "asc"
             THEN SeqLess(k1, k2) ELSE SeqLess(k2, k1)

RECURSIVE OrderKeys(_, _, _, _)
\* the keys of a set of documents in the store's order
OrderKeys(st, keys, fields, SortDirection) ==
    IF keys = {} THEN <<>>
    ELSE LET m == CHOOSE k \in keys :
                    \A j \in keys \ {k} : DocBefore(st, k, j, fields, SortDirection)
         IN  <<m>> \o OrderKeys(st, keys \ {m}, fields, SortDirection)

\* the first n elements of a sequence
Take(s, n) == IF Len(s) <= n THEN s ELSE SubSeq(s, 1, n)

\* a seek that keeps the document the cursor was taken from (StartAt)
startAfter_Inclusive(cursorVals, tuple, fields, SortDirection) ==
    ~TupleBefore(tuple, cursorVals, fields, SortDirection)

\* a seek that also skips the documents that tie with the cursor on the
\* leading field
startAfter_SkipTies(cursorVals, tuple, fields, SortDirection) ==
    /\ TupleBefore(cursorVals, tuple, fields, SortDirection)
    /\ tuple[1] # cursorVals[1]

\* q.StartAfter(cursorVals...): the scan resumes strictly after the cursor
startAfter(cursorVals, tuple, fields, SortDirection) ==
    TupleBefore(cursorVals, tuple, fields, SortDirection)

\* q.Documents(ctx): the ordered, filtered, seeked and limited scan.
\* cursor is <<>> (no StartAfter) or <<vals>>.
RunQuery(st, f, fields, SortDirection, cursor, lim) ==
    LET cand == {k \in DOMAIN st :
                    /\ Range(fields) \subseteq DOMAIN st[k]
                    /\ ApplyFilters(st[k], f)}
        after == IF cursor = <<>> THEN cand
                 ELSE {k \in cand :
                         startAfter(cursor[1], DocTuple(st[k], fields),
                                    fields, SortDirection)}
        keys == Take(OrderKeys(st, after, fields, SortDirection), lim)
    IN  [i \in 1..Len(keys) |-> st[keys[i]]]

----------------------------------------------------------------------------
(* The cursor codec *)

\* the page token "" (first page, or pagination exhausted)
EmptyToken == [kind |-> "empty", vals |-> <<>>]

\* a token that is not the base64 text of a JSON array
GarbageToken == [kind |-> "garbage", vals |-> <<>>]

\* the base64 text of the JSON value null
NullToken == [kind |-> "null", vals |-> <<>>]

\* the base64 text of a JSON value that is neither an array nor null
ObjectToken == [kind |-> "object", vals |-> <<>>]

\* getSortValue without the case for city
getSortValue_NoCity(e, key) ==
    CASE key = "price" -> e.Price
      [] key = "start_time" -> e.StartTime
      [] key = "end_time" -> e.EndTime
      [] key = "type" -> e.Type
      [] key = "created_at" -> e.CreatedAt
      [] key = "event_name" -> e.EventName
      [] OTHER -> e.CreatedAt

\* the sort value of an event for a plan field
getSortValue(e, key) ==
    CASE key = "price" -> e.Price
      [] key = "start_time" -> e.StartTime
      [] key = "end_time" -> e.EndTime
      [] key = "city" -> e.City
      [] key = "type" -> e.Type
      [] key = "created_at" -> e.CreatedAt
      [] key = "event_name" -> e.EventName
      [] OTHER -> e.CreatedAt

\* the cursor values of an event, one per plan field
cursorValues(e, fields) ==
    [i \in 1..Len(fields) |->
        IF fields[i] = "id" THEN e.Id ELSE getSortValue(e, fields[i])]

\* json.Marshal of one value: a time becomes its RFC3339 text, a number stays
\* a number, a string stays a string
jsonValue(x) == IF x.k = "time" THEN Str(FormatTime(x.v[1])) ELSE x

\* base64 of the JSON array of the values
encodeCursor(vals) ==
    [kind |-> "b64", vals |-> [i \in 1..Len(vals) |-> jsonValue(vals[i])]]

\* base64 decoding, then json.Unmarshal into []interface{}: an array gives
\* its values, null gives a nil slice without error, anything else fails
decodeCursor(token) ==
    IF token.kind \in {"b64", "null"} THEN [vals |-> token.vals, err |-> FALSE]
    ELSE [vals |-> <<>>, err |-> TRUE]

\* retypeCursor that leaves every decoded value as it is
retypeCursor_NoParse(vals, fields) == [i \in 1..Len(fields) |-> vals[i]]

\* retypeCursor that parses a time-like string at any position
retypeCursor_AnyPosition(vals, fields) ==
    [i \in 1..Len(fields) |->
        IF vals[i].k = "str" /\ ParsesAsTime(vals[i].v)
        THEN Time(ParseTime(vals[i].v))
        ELSE vals[i]]

\* step 7: a string at the position of a temporal field is parsed back into
\* a time when it parses as RFC3339
retypeCursor(vals, fields) ==
    [i \in 1..Len(fields) |->
        IF /\ fields[i] \in TemporalFields
           /\ vals[i].k = "str"
           /\ ParsesAsTime(vals[i].v)
        THEN Time(ParseTime(vals[i].v))
        ELSE vals[i]]

----------------------------------------------------------------------------
(* eventRepo.List *)

ErrInvalidToken == "invalid page token"

ErrCursorMismatch == "cursor mismatch: sorting criteria changed"

\* what List returns; queried tells whether the store query was executed
Result(events, nextToken, err, queried) ==
    [events |-> events, nextToken |-> nextToken, err |-> err, queried |-> queried]

\* nextPageToken that issues a token for every non-empty page
nextPageToken_NonEmptyPage(events, fields, lim) ==
    IF Len(events) > 0
    THEN encodeCursor(cursorValues(events[Len(events)], fields))
    ELSE EmptyToken

\* nextPageToken that also issues a token for a page one record short
nextPageToken_OneShort(events, fields, lim) ==
    IF Len(events) > 0 /\ Len(events) >= lim - 1
    THEN encodeCursor(cursorValues(events[Len(events)], fields))
    ELSE EmptyToken

\* the next page token List derives from the page it read
nextPageToken(events, fields, lim) ==
    IF Len(events) = lim
    THEN encodeCursor(cursorValues(events[Len(events)], fields))
    ELSE EmptyToken

\* List, from the executed query to the returned page
listPage(st, s, fields, cursor) ==
    LET lim == limit(s.Sorting.PageSize)
        docs == RunQuery(st, s.Filters, fields, s.Sorting.SortDirection, cursor, lim)
        events == [i \in 1..Len(docs) |-> DataTo(docs[i])]
    IN  Result(events, nextPageToken(events, fields, lim), "", TRUE)

\* the error the store iterator reports
ErrStore == "store unavailable"

\* the iterator reports no error
NoIterErr == <<>>

\* an iterator loop that returns the records read before the error
iterate_PartialPage(page, iterErr) ==
    IF iterErr # NoIterErr /\ iterErr[1] <= Len(page.events)
    THEN Result(SubSeq(page.events, 1, iterErr[1]), EmptyToken, ErrStore, TRUE)
    ELSE page

\* the iterator loop over the page the query yields: iterErr is NoIterErr, or
\* <<n>> when iter.Next reports an error after n records were read (instead
\* of the next record or Done)
iterate(page, iterErr) ==
    IF iterErr # NoIterErr /\ iterErr[1] <= Len(page.events)
    THEN Result(<<>>, EmptyToken, ErrStore, TRUE)
    ELSE page

\* List, from the executed query to what it returns
listPageIter(st, s, fields, cursor, iterErr) ==
    iterate(listPage(st, s, fields, cursor), iterErr)

\* a length check that rejects only a cursor shorter than the plan
cursorMismatch_OnlyShorter(vals, fields) == Len(vals) < Len(fields)

\* the safety check: the cursor length must match the number of OrderBy fields
cursorMismatch(vals, fields) == Len(vals) # Len(fields)

\* a List that takes a token it cannot decode for no token
ListIter_IgnoreBadToken(st, s, iterErr) ==
    LET fields == sortFields(s.Filters, s.Sorting.SortKey)
        tok == s.Sorting.PageToken
        dec == decodeCursor(tok)
    IN  IF tok = EmptyToken \/ dec.err \/ cursorMismatch(dec.vals, fields)
        THEN listPageIter(st, s, fields, <<>>, iterErr)
        ELSE listPageIter(st, s, fields, <<retypeCursor(dec.vals, fields)>>, iterErr)

\* eventRepo.List(ctx, search) against a store whose iterator behaves as
\* iterErr tells
ListIter(st, s, iterErr) ==
    LET fields == sortFields(s.Filters, s.Sorting.SortKey)
        tok == s.Sorting.PageToken
        dec == decodeCursor(tok)
    IN  IF tok = EmptyToken THEN listPageIter(st, s, fields, <<>>, iterErr)
        ELSE IF dec.err THEN Result(<<>>, EmptyToken, ErrInvalidToken, FALSE)
        ELSE IF cursorMismatch(dec.vals, fields)
             THEN Result(<<>>, EmptyToken, ErrCursorMismatch, FALSE)
        ELSE listPageIter(st, s, fields, <<retypeCursor(dec.vals, fields)>>, iterErr)

\* a List that keeps the cursor of the page it returned last and resumes
\* from it when the request carries no token
List_ResumesFromLast(st, s) ==
    ListIter(st,
             IF s.Sorting.PageToken = EmptyToken /\ "nextToken" \in DOMAIN resp
             THEN [s EXCEPT !.Sorting.PageToken = resp.nextToken] ELSE s,
             NoIterErr)

\* eventRepo.List(ctx, search) against a store that reports no error
List(st, s) == ListIter(st, s, NoIterErr)

----------------------------------------------------------------------------
(* Store and service operations *)

\* a service that forwards the request as it came
capPageSize_None(s) == s

\* eventService.ListEvents: the request it passes to the repository
capPageSize(s) ==
    [s EXCEPT !.Sorting.PageSize =
        IF @ > ServiceMaxPageSize THEN ServiceMaxPageSize ELSE @]

\* eventService.ListEvents: caps the page size, then calls the repository
ListEvents(st, s) == List(st, capPageSize(s))

\* eventRepo.Save: the event's document replaces whatever is stored under its id
Save(st, e) ==
    [k \in DOMAIN st \cup {e.Id.v} |-> IF k = e.Id.v THEN ToDoc(e) ELSE st[k]]

\* eventRepo.Delete: the document under the id is removed
Delete(st, id) == [k \in DOMAIN st \ {id} |-> st[k]]

\* Set(ctx, updates, firestore.MergeAll): the fields of the map overwrite or
\* extend the document's
MergeAll(doc, updates) ==
    [n \in DOMAIN doc \cup DOMAIN updates |->
        IF n \in DOMAIN updates THEN updates[n] ELSE doc[n]]

\* eventRepo.Update: the map is merged into the document under the id, which
\* the store creates when there is none
Update(st, id, updates) ==
    [k \in DOMAIN st \cup {id} |->
        IF k = id
        THEN MergeAll(IF id \in DOMAIN st THEN st[id] ELSE <<>>, updates)
        ELSE st[k]]

\* an update map that keeps its "id" entry
stripId_Keep(updates) == updates

\* eventService.UpdateEvent: delete(updates, "id")
stripId(updates) == [n \in DOMAIN updates \ {"id"} |-> updates[n]]

\* a call of the service to the repository
Call(op, id, updates) ==
    [op |-> op, id |-> id, updates |-> updates, search |-> <<>>]

\* a call of the service to the repository's List with a request
ListCall(req) == [op |-> "List", id |-> <<>>, updates |-> <<>>, search |-> <<req>>]

NoCall == Call("none", <<>>, <<>>)

ErrIdRequired == "id is required for update"

ErrNoFields == "no fields to update"

\* eventService.UpdateEvent: the store it leaves, the call it makes to the
\* repository and the error it returns
updateEvent(st, id, updates) ==
    IF id = <<>> THEN [store |-> st, call |-> NoCall, err |-> ErrIdRequired]
    ELSE IF DOMAIN updates = {} THEN [store |-> st, call |-> NoCall, err |-> ErrNoFields]
    ELSE [store |-> Update(st, id, stripId(updates)),
          call |-> Call("Update", id, stripId(updates)), err |-> ""]

ErrNameRequired == "event name is required"

\* a call of the service to the repository's Save with an event
SaveCall(e) ==
    [op |-> "Save", id |-> e.Id.v, updates |-> <<>>, search |-> <<>>,
     event |-> <<e>>]

\* event.Id == ""
IdUnset(e) == e.Id = Str(<<>>)

\* event.CreatedAt.IsZero()
CreatedAtUnset(e) == e.CreatedAt = Time(0)

\* a stamping that gives every event the current time
stamped_AlwaysNow(e, uuid, now) ==
    [e EXCEPT !.Id = IF IdUnset(e) THEN Str(uuid) ELSE @,
              !.CreatedAt = Time(now)]

\* the event after CreateEvent filled in what the caller left unset: uuid is
\* what uuid.New().String() gives, now what time.Now().UTC() gives
stamped(e, uuid, now) ==
    [e EXCEPT !.Id = IF IdUnset(e) THEN Str(uuid) ELSE @,
              !.CreatedAt = IF CreatedAtUnset(e) THEN Time(now) ELSE @]

\* eventService.CreateEvent: the store it leaves, the call it makes to the
\* repository and the error it returns
createEvent(st, e, uuid, now) ==
    IF e.EventName = Str(<<>>)
    THEN [store |-> st, call |-> NoCall, err |-> ErrNameRequired]
    ELSE [store |-> Save(st, stamped(e, uuid, now)),
          call |-> SaveCall(stamped(e, uuid, now)), err |-> ""]

----------------------------------------------------------------------------
(* Inputs *)

Concert == <<3>>

Theater == <<4>>

\* the field values of the events callers create, by id: some pass and some
\* fail each filter below, and several ids tie on each sortable field
PoolNames == <<<<1>>, <<1, 2>>, FormatTime(1), <<1, HighCh>>, <<2>>>>

PoolCities == <<<<1>>, <<2>>, <<1>>, <<1, 1>>, <<2>>>>

PoolTypes == <<Concert, Concert, Theater, Concert, Theater>>

PoolPrices == <<50, 50, 90, 40, 60>>

PoolStarts == <<2, 3, 2, 1, 2>>

PoolEnds == <<3, 4, 0, 3, 3>>

PoolCreated == <<2, 1, 2, 1, 3>>

\* the event created under the i-th id
EventFor(i) ==
    LET j == ((i - 1) % Len(PoolNames)) + 1
    IN  [Id |-> Str(<<i>>), EventName |-> Str(PoolNames[j]),
         City |-> Str(PoolCities[j]), Type |-> Str(PoolTypes[j]),
         Price |-> Num(PoolPrices[j]), StartTime |-> Time(PoolStarts[j]),
         EndTime |-> Time(PoolEnds[j]), CreatedAt |-> Time(PoolCreated[j])]

EventPool == {EventFor(i) : i \in 1..MaxEvents}

FilterSets ==
    [EventName : {<<>>, <<1>>}, City : {<<>>, <<1>>}, Type : {<<>>, Concert},
     MinPrice : {<<>>, <<50>>}, MaxPrice : {<<>>, <<60>>},
     StartDate : {<<>>, <<2>>}, EndDate : {<<>>, <<3>>}]

SortKeys == {"", "created_at", "price", "start_time", "end_time", "event_name",
             "city", "id", "type"}

SortDirections == {"asc", "desc"}

PageSizes == {1, 2}

Searches ==
    [Filters : FilterSets,
     Sorting : [SortKey : SortKeys, SortDirection : SortDirections,
                PageSize : PageSizes, PageToken : {EmptyToken}]]

----------------------------------------------------------------------------
(* The state machine *)

NoFilters ==
    [EventName |-> <<>>, City |-> <<>>, Type |-> <<>>, MinPrice |-> <<>>,
     MaxPrice |-> <<>>, StartDate |-> <<>>, EndDate |-> <<>>]

NoSearch ==
    [Filters |-> NoFilters,
     Sorting |-> [SortKey |-> "", SortDirection |-> "asc", PageSize |-> 1,
                  PageToken |-> EmptyToken]]

NoResult == Result(<<>>, EmptyToken, "", FALSE)

\* no HTTP exchange is recorded
NoHttp == [status |-> 0]

\* the maps callers send to update an event
UpdateInputs ==
    {[price |-> Num(90)], [id |-> Str(<<1>>), price |-> Num(90)]}

\* the nil http.Handler
Nil == "nil"

\* the requests that arrive at the entry point
Requests == 1..MaxRequests

\* the process before its first request: functionHandler is nil, initOnce is
\* unused (sync.Once is "new", then "running" while a caller holds its lock
\* and runs the function, then "done")
NotStarted ==
    /\ functionHandler = Nil
    /\ initOnce = "new"
    /\ pc = [r \in Requests |-> "idle"]
    /\ appEnv = ""
    /\ setupRuns = 0

Init ==
    /\ store = <<>>
    /\ search = NoSearch
    /\ resp = NoResult
    /\ phase = "idle"
    /\ pages = <<>>
    /\ issuedPlan = <<>>
    /\ repoCall = NoCall
    /\ http = NoHttp
    /\ storeFault = NoIterErr
    /\ requests = 0
    /\ stable = {}
    /\ NotStarted

\* a write ends the pagination the model was following
Forget ==
    /\ search' = NoSearch
    /\ resp' = NoResult
    /\ phase' = "idle"
    /\ pages' = <<>>
    /\ issuedPlan' = <<>>
    /\ http' = NoHttp
    /\ storeFault' = NoIterErr
    /\ requests' = 0
    /\ stable' = {}
    /\ UNCHANGED entryVars

\* eventService.CreateEvent with an event that carries its id and creation time
CreateEvent(e) ==
    /\ phase = "idle"
    /\ e.EventName # Str(<<>>)
    /\ store' = Save(store, e)
    /\ repoCall' = Call("Save", e.Id.v, <<>>)
    /\ Forget

\* a caller of the service: eventService.UpdateEvent with an id and a map;
\* search holds what the caller asked for, resp what it got back
UpdateEvent(id, updates) ==
    /\ phase = "idle"
    /\ \E u \in {updateEvent(store, id, updates)} :
          /\ store' = u.store
          /\ repoCall' = u.call
          /\ resp' = [err |-> u.err]
    /\ search' = [id |-> id, updates |-> updates]
    /\ phase' = "idle"
    /\ pages' = <<>>
    /\ issuedPlan' = <<>>
    /\ http' = NoHttp
    /\ storeFault' = NoIterErr
    /\ requests' = 0
    /\ stable' = {}
    /\ UNCHANGED entryVars

\* eventService.DeleteEvent
DeleteEvent(id) ==
    /\ phase = "idle"
    /\ id # <<>>
    /\ id \in DOMAIN store
    /\ store' = Delete(store, id)
    /\ repoCall' = Call("Delete", id, <<>>)
    /\ Forget

\* a first page request: List with an empty page token
ListFirst(s) ==
    /\ phase = "idle"
    /\ s.Sorting.PageToken = EmptyToken
    /\ search' = s
    /\ resp' = ListEvents(store, s)
    /\ pages' = resp'.events
    /\ issuedPlan' = sortFields(s.Filters, s.Sorting.SortKey)
    /\ phase' = IF resp'.nextToken = EmptyToken THEN "done" ELSE "paging"
    /\ repoCall' = Call("List", <<>>, <<>>)
    /\ requests' = 1
    /\ stable' = DOMAIN store
    /\ UNCHANGED entryVars
    /\ UNCHANGED <<store, http, storeFault>>

\* the caller follows the next page token with the same request
ListNext ==
    /\ phase = "paging"
    /\ search' = [search EXCEPT !.Sorting.PageToken = resp.nextToken]
    /\ resp' = ListEvents(store, search')
    /\ pages' = pages \o resp'.events
    /\ phase' = IF resp'.nextToken = EmptyToken THEN "done" ELSE "paging"
    /\ repoCall' = Call("List", <<>>, <<>>)
    /\ requests' = requests + 1
    /\ UNCHANGED <<store, issuedPlan, http, storeFault, stable>>
    /\ UNCHANGED entryVars

\* the caller drops a pagination that has ended
EndPagination ==
    /\ phase \in {"done", "stale"}
    /\ Forget
    /\ repoCall' = NoCall
    /\ UNCHANGED store

Next ==
    \/ \E e \in EventPool : CreateEvent(e)
    \/ \E id \in DOMAIN store : DeleteEvent(id)
    \/ \E s \in Searches : ListFirst(s)
    \/ ListNext
    \/ EndPagination

Spec == Init /\ [][Next]_vars

----------------------------------------------------------------------------
(* Properties of Spec *)

\* the position of x in a sequence that holds it
Pos(seq, x) == CHOOSE i \in DOMAIN seq : seq[i] = x

\* the fields under a range predicate of a filter set
RangeFields(f) ==
    {fld \in {"event_name", "city", "price", "start_time", "end_time"} :
        \/ fld = "event_name" /\ f.EventName # <<>>
        \/ fld = "city" /\ f.City # <<>>
        \/ fld = "price" /\ (f.MinPrice # <<>> \/ f.MaxPrice # <<>>)
        \/ fld = "start_time" /\ f.StartDate # <<>>
        \/ fld = "end_time" /\ f.EndDate # <<>>}

CanonicalOrder == <<"event_name", "city", "price", "start_time", "end_time">>

\* the number of filters a filter set activates
ActiveFilters(f) ==
    Cardinality({n \in DOMAIN f : f[n] # <<>>})

\* the stored documents the filters of the current request select
Matching == {k \in DOMAIN store : ApplyFilters(store[k], search.Filters)}

\* is a sequence of events strictly ascending in the order of the plan
PlanOrdered(events, plan, SortDirection) ==
    \A i, j \in 1..Len(events) :
        i < j => TupleBefore(cursorValues(events[i], plan),
                             cursorValues(events[j], plan), plan, SortDirection)

C2_InequalityPrefix ==
    phase # "idle" =>
        LET R == RangeFields(search.Filters)
            P == Range(issuedPlan)
        IN  /\ R \subseteq P
            /\ \A a, b \in R \cap P :
                  Pos(CanonicalOrder, a) < Pos(CanonicalOrder, b)
                      => Pos(issuedPlan, a) < Pos(issuedPlan, b)
            /\ \A a \in R \cap P : \A b \in P \ R :
                  Pos(issuedPlan, a) < Pos(issuedPlan, b)

\* C5: for every stored event and the plan of the request, decoding the
\* encoded cursor values and re-typing them per plan position gives back the
\* original tuple, value by value
C5_CursorRoundTrip ==
    phase # "idle" =>
        \A k \in DOMAIN store :
            LET vals == cursorValues(DataTo(store[k]), issuedPlan)
                dec == decodeCursor(encodeCursor(vals))
            IN  /\ ~dec.err
                /\ Len(dec.vals) = Len(vals)
                /\ retypeCursor(dec.vals, issuedPlan) = vals

\* C5 witness: a request whose plan holds a temporal field and a string
\* field, over a store with an event whose name reads like a timestamp
C5_Witness ==
    /\ phase # "idle"
    /\ issuedPlan = <<"event_name", "created_at", "id">>
    /\ \E k \in DOMAIN store : ParsesAsTime(store[k]["event_name"].v)

\* C7: List returns a next page token exactly when the page holds limit records
C7_TokenIffFullPage ==
    phase # "idle" =>
        (resp.nextToken # EmptyToken
            <=> Len(resp.events) = limit(search.Sorting.PageSize))

\* C7 witness: a full page of two records came with a token
C7_Witness ==
    /\ phase = "paging"
    /\ Len(resp.events) = 2
    /\ limit(search.Sorting.PageSize) = 2
    /\ resp.nextToken # EmptyToken

HasPrefix(s, p) == Len(s) >= Len(p) /\ SubSeq(s, 1, Len(p)) = p

\* the filter predicates as the caller means them
Satisfies(e, f) ==
    /\ f.Type # <<>> => e.Type = Str(f.Type)
    /\ f.EventName # <<>> => HasPrefix(e.EventName.v, f.EventName)
    /\ f.City # <<>> => HasPrefix(e.City.v, f.City)
    /\ f.MinPrice # <<>> => e.Price.v[1] >= f.MinPrice[1]
    /\ f.MaxPrice # <<>> => e.Price.v[1] <= f.MaxPrice[1]
    /\ f.StartDate # <<>> => e.StartTime.v[1] >= f.StartDate[1]
    /\ f.EndDate # <<>> => e.EndTime.v[1] <= f.EndDate[1]

\* C10: every record of a returned page satisfies every active filter, and
\* the page is sorted by the plan
C10_PageFilteredAndSorted ==
    phase # "idle" =>
        /\ \A i \in 1..Len(resp.events) : Satisfies(resp.events[i], search.Filters)
        /\ PlanOrdered(resp.events, issuedPlan, search.Sorting.SortDirection)

\* C10 witness: a page of two records under three or more filters, the
\* store holding events the filters exclude
C10_Witness ==
    /\ phase # "idle"
    /\ Len(resp.events) = 2
    /\ ActiveFilters(search.Filters) >= 3
    /\ search.Filters.MaxPrice # <<>>
    /\ Cardinality(Matching) < Cardinality(DOMAIN store)

----------------------------------------------------------------------------
(* SpecStale: a token presented again after the filters or the sort key changed *)

\* the filter sets with at most one active filter
OneFilterSets == {f \in FilterSets : ActiveFilters(f) <= 1}

StaleSearches == {s \in Searches : s.Filters \in OneFilterSets}

\* the caller presents the token it holds with other filters or another
\* sort key
ListStale(f, key) ==
    /\ phase = "paging"
    /\ <<f, key>> # <<search.Filters, search.Sorting.SortKey>>
    /\ search' = [search EXCEPT !.Filters = f,
                                !.Sorting.SortKey = key,
                                !.Sorting.PageToken = resp.nextToken]
    /\ resp' = ListEvents(store, search')
    /\ phase' = "stale"
    /\ repoCall' = Call("List", <<>>, <<>>)
    /\ requests' = requests + 1
    /\ UNCHANGED <<store, pages, issuedPlan, http, storeFault, stable>>
    /\ UNCHANGED entryVars

\* every event of the pool has been created
InitStale ==
    /\ store = [k \in {<<i>> : i \in 1..MaxEvents} |-> ToDoc(EventFor(k[1]))]
    /\ search = NoSearch
    /\ resp = NoResult
    /\ phase = "idle"
    /\ pages = <<>>
    /\ issuedPlan = <<>>
    /\ repoCall = NoCall
    /\ http = NoHttp
    /\ storeFault = NoIterErr
    /\ requests = 0
    /\ stable = {}
    /\ NotStarted

NextStale ==
    \/ \E s \in StaleSearches : ListFirst(s)
    \/ ListNext
    \/ \E f \in OneFilterSets : \E key \in SortKeys : ListStale(f, key)
    \/ EndPagination

SpecStale == InitStale /\ [][NextStale]_vars

\* the plan of the request List handled last
CurrentPlan == sortFields(search.Filters, search.Sorting.SortKey)

\* C3: a token presented with a request whose plan differs from the plan it
\* was issued under is rejected with an error
C3_StaleTokenRejected ==
    (phase = "stale" /\ CurrentPlan # issuedPlan) => resp.err # ""

\* C4: a token of n values presented to a plan of m # n fields gets the
\* cursor mismatch error, no records, no token, and no store query
C4_ArityMismatchRejected ==
    (phase = "stale" /\ Len(search.Sorting.PageToken.vals) # Len(CurrentPlan)) =>
        resp = Result(<<>>, EmptyToken, ErrCursorMismatch, FALSE)

\* C4 witness: a token of three values was presented to a plan of two
\* fields whose query would have returned records
C4_Witness ==
    /\ phase = "stale"
    /\ Len(search.Sorting.PageToken.vals) = 3
    /\ Len(CurrentPlan) = 2
    /\ Matching # {}
    /\ resp.err = ErrCursorMismatch

----------------------------------------------------------------------------
(* SpecExample: the worked example of four records and pages of two *)

\* the ids of the records A, B, C, D (not in creation order)
ExampleIds == <<<<3>>, <<1>>, <<4>>, <<2>>>>

\* the n-th record in creation order, with the given price
ExampleEvent(n, price) ==
    [Id |-> Str(ExampleIds[n]), EventName |-> Str(<<1, n>>), City |-> Str(<<1>>),
     Type |-> Str(Concert), Price |-> Num(price), StartTime |-> Time(2),
     EndTime |-> Time(3), CreatedAt |-> Time(n)]

\* filters = {price >= 50}, sort key creation time ascending, page size 2
ExampleSearch ==
    [Filters |-> [NoFilters EXCEPT !.MinPrice = <<50>>],
     Sorting |-> [SortKey |-> "created_at", SortDirection |-> "asc",
                  PageSize |-> 2, PageToken |-> EmptyToken]]

\* the store holds A, B, C, D, each with some price of at least 50
InitExample ==
    /\ \E prices \in [1..4 -> {50, 60, 90}] :
          store = [k \in Range(ExampleIds) |->
                      ToDoc(ExampleEvent(Pos(ExampleIds, k), prices[Pos(ExampleIds, k)]))]
    /\ search = NoSearch
    /\ resp = NoResult
    /\ phase = "idle"
    /\ pages = <<>>
    /\ issuedPlan = <<>>
    /\ repoCall = NoCall
    /\ http = NoHttp
    /\ storeFault = NoIterErr
    /\ requests = 0
    /\ stable = {}
    /\ NotStarted

NextExample ==
    \/ ListFirst(ExampleSearch)
    \/ ListNext
    \/ EndPagination

SpecExample == InitExample /\ [][NextExample]_vars

\* the n-th stored record in creation order
Rec(n) == DataTo(store[ExampleIds[n]])

\* the course of the example: page 1 is [A,B] with a token that decodes to
\* the tuple of B, page 2 is [C,D] with a token, page 3 is empty without a
\* token, and the pages together equal the unpaginated fetch
ExampleCourse ==
    /\ (phase # "idle" /\ search.Sorting.PageToken = EmptyToken) =>
          /\ resp.events = <<Rec(1), Rec(2)>>
          /\ resp.nextToken # EmptyToken
          /\ retypeCursor(decodeCursor(resp.nextToken).vals, issuedPlan)
                = cursorValues(Rec(2), issuedPlan)
    /\ (phase = "paging" /\ search.Sorting.PageToken # EmptyToken) =>
          /\ resp.events = <<Rec(3), Rec(4)>>
          /\ resp.nextToken # EmptyToken
    /\ phase = "done" =>
          /\ resp.events = <<>>
          /\ resp.nextToken = EmptyToken
          /\ pages = <<Rec(1), Rec(2), Rec(3), Rec(4)>>
          /\ pages = ListEvents(store,
                       [ExampleSearch EXCEPT !.Sorting.PageSize = MaxLimit]).events

\* C8 as stated: the example runs this course whatever the prices (>= 50)
C8_ExampleAnyPrices == ExampleCourse

\* are the prices of A, B, C, D non-decreasing in creation order
PricesAscend == \A n \in 1..3 : Rec(n).Price.v[1] <= Rec(n + 1).Price.v[1]

\* C8 amended: the example runs this course when the prices of A, B, C, D do
\* not decrease in creation order
C8_ExampleAscendingPrices == PricesAscend => ExampleCourse

\* C8 witness: the third request of the example returned the empty page,
\* the prices ascending from 50 to 90
C8_Witness ==
    /\ phase = "done"
    /\ PricesAscend
    /\ Rec(1).Price = Num(50)
    /\ Rec(4).Price = Num(90)
    /\ Len(pages) = 4
    /\ search.Sorting.PageToken # EmptyToken

----------------------------------------------------------------------------
(* SpecStore: creates, updates and deletes *)

\* the document keys callers address
DocKeys == {<<i>> : i \in 1..MaxEvents}

NextStore ==
    \/ \E e \in EventPool : CreateEvent(e)
    \/ \E id \in DocKeys : \E u \in UpdateInputs : UpdateEvent(id, u)
    \/ \E id \in DOMAIN store : DeleteEvent(id)

SpecStore == Init /\ [][NextStore]_vars

\* the plans List builds, over every filter set and requested key
AllPlans == {sortFields(f, key) : f \in FilterSets, key \in SortKeys}

\* the stored documents a query ordered by the plan can return: those that
\* hold every field of the plan
Listable(plan) == {k \in DOMAIN store : Range(plan) \subseteq DOMAIN store[k]}

----------------------------------------------------------------------------
(* SpecLimit: list requests of every page size, entering at the repository, *)
(* at the service and at the list handler                                   *)

\* the page sizes callers ask for: below, at and above each threshold
WidePageSizes == {-1, 0, 1, 2, 19, 20, 21, 100, 101, 150}

\* the numbers of stored events, around the default page size
LimitStoreSizes == {0, DefaultLimit - 1, DefaultLimit, DefaultLimit + 1}

\* the store after the first n events of the pool were created
StoreOfSize(n) == [k \in {<<i>> : i \in 1..n} |-> ToDoc(EventFor(k[1]))]

LimitSearches ==
    [Filters : {NoFilters, [NoFilters EXCEPT !.Type = Concert]},
     Sorting : [SortKey : {"", "price"}, SortDirection : SortDirections,
                PageSize : WidePageSizes, PageToken : {EmptyToken}]]

InitLimit ==
    /\ \E n \in LimitStoreSizes : store = StoreOfSize(n)
    /\ search = NoSearch
    /\ resp = NoResult
    /\ phase = "idle"
    /\ pages = <<>>
    /\ issuedPlan = <<>>
    /\ repoCall = NoCall
    /\ http = NoHttp
    /\ storeFault = NoIterErr
    /\ requests = 0
    /\ stable = {}
    /\ NotStarted

\* a caller of the repository: eventRepo.List with the request as it is
RepoList(s) ==
    /\ phase = "idle"
    /\ search' = s
    /\ resp' = List(store, s)
    /\ repoCall' = ListCall(s)
    /\ pages' = resp'.events
    /\ issuedPlan' = sortFields(s.Filters, s.Sorting.SortKey)
    /\ phase' = "repo"
    /\ requests' = 1
    /\ stable' = DOMAIN store
    /\ UNCHANGED entryVars
    /\ UNCHANGED <<store, http, storeFault>>

\* a caller of the service: eventService.ListEvents
ServiceList(s) ==
    /\ phase = "idle"
    /\ search' = s
    /\ resp' = ListEvents(store, s)
    /\ repoCall' = ListCall(capPageSize(s))
    /\ pages' = resp'.events
    /\ issuedPlan' = sortFields(s.Filters, s.Sorting.SortKey)
    /\ phase' = "service"
    /\ requests' = 1
    /\ stable' = DOMAIN store
    /\ UNCHANGED entryVars
    /\ UNCHANGED <<store, http, storeFault>>

\* the caller has its answer and may ask again
Return ==
    /\ phase \in {"repo", "service", "handler", "auth"}
    /\ Forget
    /\ repoCall' = NoCall
    /\ UNCHANGED store

\* the page size handleList gives a request without page_size
HandlerDefaultPageSize == 20

\* validate:"gte=1,lte=100" of EventListDTO.PageSize
DtoMinPageSize == 1

DtoMaxPageSize == 100

\* validate:"oneof=..." of EventListDTO.SortKey
DtoSortKeys == {"event_name", "city", "price", "start_time", "created_at"}

StatusOK == 200

StatusBadRequest == 400

StatusInternalServerError == 500

\* the page_size parameter: absent, an integer, or text strconv.Atoi rejects
PageSizeParams ==
    {[kind |-> "absent", n |-> 0], [kind |-> "junk", n |-> 0]}
    \cup {[kind |-> "int", n |-> n] : n \in WidePageSizes}

\* the query strings callers send to GET /events
ListQueries ==
    [page_size : PageSizeParams, sort_key : {"", "price", "end_time"},
     sort_dir : {"", "desc", "up"},
     page_token : {EmptyToken, GarbageToken, NullToken},
     filters : {NoFilters,
                [NoFilters EXCEPT !.MinPrice = <<60>>, !.MaxPrice = <<50>>]}]

\* handleList step 1: the query parameters bound to the DTO
bindDTO(q) ==
    [PageSize |-> IF q.page_size.kind = "int" THEN q.page_size.n
                  ELSE HandlerDefaultPageSize,
     PageToken |-> q.page_token, SortDir |-> q.sort_dir, SortKey |-> q.sort_key,
     Filters |-> q.filters]

\* a validation that lets every page size pass
validDTO_AnyPageSize(dto) ==
    /\ dto.PageToken.kind # "garbage"
    /\ dto.SortDir \in {"", "asc", "desc"}
    /\ dto.SortKey \in {""} \cup DtoSortKeys
    /\ dto.Filters.MinPrice # <<>> => dto.Filters.MinPrice[1] >= 0
    /\ dto.Filters.MaxPrice # <<>> => dto.Filters.MaxPrice[1] >= 0

\* handleList step 2: domain.Validate.Struct(dto)
validDTO(dto) ==
    /\ dto.PageSize >= DtoMinPageSize
    /\ dto.PageSize <= DtoMaxPageSize
    /\ dto.PageToken.kind # "garbage"
    /\ dto.SortDir \in {"", "asc", "desc"}
    /\ dto.SortKey \in {""} \cup DtoSortKeys
    /\ dto.Filters.MinPrice # <<>> => dto.Filters.MinPrice[1] >= 0
    /\ dto.Filters.MaxPrice # <<>> => dto.Filters.MaxPrice[1] >= 0

\* handleList steps 3 and 4: the cross-field checks
crossValid(dto) ==
    /\ ~(/\ dto.Filters.MinPrice # <<>>
         /\ dto.Filters.MaxPrice # <<>>
         /\ dto.Filters.MinPrice[1] > dto.Filters.MaxPrice[1])
    /\ ~(/\ dto.Filters.StartDate # <<>>
         /\ dto.Filters.EndDate # <<>>
         /\ dto.Filters.EndDate[1] < dto.Filters.StartDate[1])

\* handleList step 4: the domain request, with the sorting defaults
searchReq(dto) ==
    [Filters |-> dto.Filters,
     Sorting |-> [SortKey |-> IF dto.SortKey = "" THEN "created_at" ELSE dto.SortKey,
                  SortDirection |-> IF dto.SortDir = "" THEN "asc" ELSE dto.SortDir,
                  PageSize |-> dto.PageSize, PageToken |-> dto.PageToken]]

\* handleList, rejecting the request: respondError with a validation error
rejected ==
    [status |-> StatusBadRequest, search |-> NoSearch, resp |-> NoResult,
     call |-> NoCall]

\* handleList steps 5 and 6: the service is called with the request and its
\* result answered
served(st, req) ==
    [search |-> req, resp |-> ListEvents(st, req), call |-> ListCall(capPageSize(req))]

\* what handleList does with a query: the request it hands to the service,
\* what the service returns, and the repository call
handleList(st, q) ==
    IF q.page_size.kind = "junk" THEN rejected
    ELSE IF ~validDTO(bindDTO(q)) THEN rejected
    ELSE IF ~crossValid(bindDTO(q)) THEN rejected
    ELSE served(st, searchReq(bindDTO(q)))

StatusNotFound == 404

\* an error value: a *domain.ValidationError or any other error, with its text
ValidationError(text) == [kind |-> "validation", text |-> text]

PlainError(text) == [kind |-> "plain", text |-> text]

ErrNotFound == "event not found"

\* a respondError that takes the cursor errors for mistakes of the caller
respondError_CursorIsBadRequest(err) ==
    IF err.kind = "validation" \/ err.text \in {ErrInvalidToken, ErrCursorMismatch}
    THEN StatusBadRequest
    ELSE IF err.text = ErrNotFound THEN StatusNotFound
    ELSE StatusInternalServerError

\* respondError: the status written for an error
respondError(err) ==
    IF err.kind = "validation" THEN StatusBadRequest
    ELSE IF err.text = ErrNotFound THEN StatusNotFound
    ELSE StatusInternalServerError

\* the status of the answer: 400 for a rejected request, 200 for a page, and
\* what respondError writes for the error ListEvents returned
statusOf(h) ==
    IF "status" \in DOMAIN h THEN h.status
    ELSE IF h.resp.err = "" THEN StatusOK ELSE respondError(PlainError(h.resp.err))

\* a caller of the HTTP API: GET /events with a query string
HandleList(q) ==
    /\ phase = "idle"
    /\ \E h \in {handleList(store, q)} :
          /\ http' = [status |-> statusOf(h), query |-> q]
          /\ search' = h.search
          /\ resp' = h.resp
          /\ repoCall' = h.call
          /\ pages' = h.resp.events
          /\ requests' = IF h.call = NoCall THEN 0 ELSE 1
    /\ issuedPlan' = <<>>
    /\ phase' = "handler"
    /\ stable' = DOMAIN store
    /\ UNCHANGED entryVars
    /\ UNCHANGED <<store, storeFault>>

NextLimit ==
    \/ \E s \in LimitSearches : RepoList(s)
    \/ \E s \in LimitSearches : ServiceList(s)
    \/ \E q \in ListQueries : HandleList(q)
    \/ Return

SpecLimit == InitLimit /\ [][NextLimit]_vars

\* the limit the contract gives a requested page size
ExpectedLimit(ps) == IF ps <= 0 THEN 20 ELSE IF ps > 100 THEN 100 ELSE ps

\* the smaller of two numbers
Min(a, b) == IF a <= b THEN a ELSE b

\* C11: whatever page size reaches List, the limit it uses is 20 for a size
\* of at most 0, 100 for a size above 100 and the size itself otherwise, and
\* the page holds the matching records up to that limit, never more
C11_EffectiveLimit ==
    (repoCall.op = "List" /\ repoCall.search # <<>>) =>
        LET ps == repoCall.search[1].Sorting.PageSize
        IN  /\ limit(ps) = ExpectedLimit(ps)
            /\ Len(resp.events) <= ExpectedLimit(ps)
            /\ resp.err = "" =>
                  Len(resp.events) = Min(ExpectedLimit(ps), Cardinality(Matching))

\* C11 witness: a page size of at most 0 reached List over more than 20
\* matching events and the page holds exactly 20
C11_Witness ==
    /\ phase = "repo"
    /\ repoCall.op = "List"
    /\ repoCall.search # <<>>
    /\ repoCall.search[1].Sorting.PageSize <= 0
    /\ Cardinality(Matching) > 20
    /\ Len(resp.events) = 20

\* a page size brought into [1,100]
Clamp(n) == IF n < 1 THEN 1 ELSE IF n > 100 THEN 100 ELSE n

\* a query whose parameters other than page_size pass the handler's checks
OtherwiseValid(q) ==
    /\ validDTO_AnyPageSize(bindDTO(q))
    /\ crossValid(bindDTO(q))

\* C12 as stated: for every integer page size a caller supplies to the list
\* handler, the repository is invoked, with the size clamped into [1,100]
C12_PageSizeClamped ==
    (/\ phase = "handler"
     /\ http.query.page_size.kind = "int"
     /\ OtherwiseValid(http.query)) =>
        /\ repoCall.op = "List"
        /\ repoCall.search[1].Sorting.PageSize = Clamp(http.query.page_size.n)

\* C12: the page size that reaches List through the list handler is within
\* [1,100]: 20 when the caller supplied none, the supplied size when it is
\* within [1,100]; any other size is answered with 400 and the repository is
\* not invoked
C12_PageSizeInRange ==
    phase = "handler" =>
        /\ repoCall.op = "List" =>
              /\ repoCall.search[1].Sorting.PageSize \in 1..100
              /\ repoCall.search[1].Sorting.PageSize =
                    (IF http.query.page_size.kind = "int"
                     THEN http.query.page_size.n ELSE 20)
        /\ (/\ http.query.page_size.kind = "int"
            /\ http.query.page_size.n \notin 1..100) =>
              /\ http.status = 400
              /\ repoCall = NoCall

\* C12 witness: a request that is valid but for its page size above 100 was
\* answered with 400 without a repository call
C12_Witness ==
    /\ phase = "handler"
    /\ http.query.page_size.kind = "int"
    /\ http.query.page_size.n > 100
    /\ OtherwiseValid(http.query)
    /\ http.status = 400
    /\ repoCall = NoCall

\* C13: ListEvents passes the request on with a page size above 100 reduced
\* to 100 and nothing else changed, and returns what the repository returned
C13_ServiceCapsPageSize ==
    phase = "service" =>
        /\ repoCall.op = "List"
        /\ repoCall.search[1].Sorting.PageSize <= 100
        /\ repoCall.search[1] =
              [search EXCEPT !.Sorting.PageSize = IF @ > 100 THEN 100 ELSE @]
        /\ resp = List(store, repoCall.search[1])

\* C13 witness: a request for more than 100 records reached the repository
\* with a page size of 100 and its page was returned
C13_Witness ==
    /\ phase = "service"
    /\ search.Sorting.PageSize > 100
    /\ repoCall.search[1].Sorting.PageSize = 100
    /\ search.Sorting.SortKey = "price"
    /\ Len(resp.events) > 0

----------------------------------------------------------------------------
(* SpecRequests: list requests of every kind, given to the repository over *)
(* a store whose iterator may fail                                         *)

\* filter sets that set the same filters to different values
PlanFilters ==
    [EventName : {<<>>, <<1>>, <<2>>}, City : {<<>>, <<1>>}, Type : {<<>>},
     MinPrice : {<<>>, <<0>>, <<50>>}, MaxPrice : {<<>>},
     StartDate : {<<>>, <<2>>}, EndDate : {<<>>}]

\* the sort keys callers ask for, one of them no field of an event
AnySortKeys == SortKeys \cup {"foo"}

\* the page tokens callers present: none, undecodable ones, and a cursor of
\* two values
TokenPool ==
    {EmptyToken, GarbageToken, ObjectToken, NullToken,
     encodeCursor(<<Time(2), Str(<<1>>)>>)}

\* the iterator's behaviours: no error, an error on the first record, an
\* error after one record
IterErrs == {NoIterErr, <<0>>, <<1>>}

AnySearches ==
    [Filters : PlanFilters,
     Sorting : [SortKey : AnySortKeys, SortDirection : SortDirections,
                PageSize : {0, 2}, PageToken : TokenPool]]

InitRequests ==
    /\ \E n \in {1, MaxEvents} : store = StoreOfSize(n)
    /\ search = NoSearch
    /\ resp = NoResult
    /\ phase = "idle"
    /\ pages = <<>>
    /\ issuedPlan = <<>>
    /\ repoCall = NoCall
    /\ http = NoHttp
    /\ storeFault = NoIterErr
    /\ requests = 0
    /\ stable = {}
    /\ NotStarted

\* eventRepo.List with any request, over a store that behaves as iterErr tells
ListAny(s, iterErr) ==
    /\ phase = "idle"
    /\ search' = s
    /\ storeFault' = iterErr
    /\ resp' = ListIter(store, s, iterErr)
    /\ repoCall' = ListCall(s)
    /\ pages' = resp'.events
    /\ issuedPlan' = sortFields(s.Filters, s.Sorting.SortKey)
    /\ phase' = "repo"
    /\ requests' = 1
    /\ stable' = DOMAIN store
    /\ UNCHANGED entryVars
    /\ UNCHANGED <<store, http>>

NextRequests ==
    \/ /\ phase = "idle"
       /\ \E s \in AnySearches : \E iterErr \in IterErrs : ListAny(s, iterErr)
    \/ Return

SpecRequests == InitRequests /\ [][NextRequests]_vars

\* the fixed set of sortable fields the contract names: identifier, creation
\* time, price, start time, end time, name, category
SortableFields ==
    {"id", "created_at", "price", "start_time", "end_time", "event_name", "type"}

\* C14: a requested key outside the registry causes no error and is not in
\* the plan, and without a range filter the plan is [created_at, id]
C14_UnsortableFallsBack ==
    (/\ phase = "repo"
     /\ search.Sorting.SortKey \notin SortableFields
     /\ search.Sorting.PageToken = EmptyToken
     /\ storeFault = NoIterErr) =>
        /\ resp.err = ""
        /\ search.Sorting.SortKey \notin Range(issuedPlan)
        /\ RangeFields(search.Filters) = {} => issuedPlan = <<"created_at", "id">>

\* C15: a requested key of the fixed set is in the plan, and leads it when no
\* range filter is active; every other key gives the plan of a request
\* without a key
C15_RegistryIsFixedSet ==
    phase = "repo" =>
        IF search.Sorting.SortKey \in SortableFields
        THEN /\ search.Sorting.SortKey \in Range(issuedPlan)
             /\ RangeFields(search.Filters) = {} =>
                   issuedPlan[1] = search.Sorting.SortKey
        ELSE issuedPlan = sortFields(search.Filters, "")

\* C16: a non-empty token that is not valid base64, or not the base64 of a
\* JSON array, gets an error, no records and no token, and the store query
\* is not executed
C16_UndecodableTokenRejected ==
    (phase = "repo" /\ search.Sorting.PageToken.kind \in {"garbage", "object", "null"}) =>
        /\ resp.err # ""
        /\ ~resp.queried
        /\ resp.events = <<>>
        /\ resp.nextToken = EmptyToken

\* C16 witness: the base64 text of a JSON object was presented over a store
\* that holds events and was rejected as an invalid page token
C16_Witness ==
    /\ phase = "repo"
    /\ search.Sorting.PageToken = ObjectToken
    /\ search.Filters = NoFilters
    /\ Cardinality(DOMAIN store) > 1
    /\ resp.err = ErrInvalidToken

\* C17: when the iterator reports an error, on the first record or after
\* some records, List returns that error, no records and no token
C17_IteratorErrorPassedThrough ==
    (/\ phase = "repo"
     /\ storeFault # NoIterErr
     /\ List(store, search).queried
     /\ storeFault[1] <= Len(List(store, search).events)) =>
        resp = Result(<<>>, EmptyToken, ErrStore, TRUE)

\* C17 witness: the iterator failed after the first of two records
C17_Witness ==
    /\ phase = "repo"
    /\ storeFault = <<1>>
    /\ Len(List(store, search).events) = 2
    /\ resp.err = ErrStore

\* the filters a filter set sets
Shape(f) == {n \in DOMAIN f : f[n] # <<>>}

\* C18: the plan of a request is the plan of every request that sets the
\* same filters and asks for the same key, whatever the filter values, the
\* store, the token, the page size and the direction
C18_PlanDeterministic ==
    phase = "repo" =>
        \A f \in PlanFilters :
            Shape(f) = Shape(search.Filters) =>
                sortFields(f, search.Sorting.SortKey) = issuedPlan

\* C18 witness: a request with a minimum price of 0, a page token and a
\* failing store got a plan led by price
C18_Witness ==
    /\ phase = "repo"
    /\ search.Filters.MinPrice = <<0>>
    /\ search.Sorting.PageToken # EmptyToken
    /\ storeFault # NoIterErr
    /\ Cardinality(DOMAIN store) = 1
    /\ issuedPlan[1] = "price"

----------------------------------------------------------------------------
(* SpecAuth: requests through WithAuthProtection *)

StatusForbidden == 403

StatusUnauthorized == 401

\* the ID tokens callers present, and the UID each verifies to (none for a
\* token the verification rejects)
IdTokens == {"admin-token", "user-token", "bad-token"}

\* authClient.VerifyIDToken: the token (its UID) or an error
VerifyIDToken(idToken) ==
    CASE idToken = "admin-token" -> [token |-> <<"admin">>, err |-> FALSE]
      [] idToken = "user-token" -> [token |-> <<"user">>, err |-> FALSE]
      [] OTHER -> [token |-> <<>>, err |-> TRUE]

\* the Authorization headers: none, another scheme, a lower-case scheme, and
\* a bearer token
AuthHeaders ==
    [scheme : {"", "Basic ", "bearer ", "Bearer "}, idToken : IdTokens]

\* the URL paths, as chunks of text: strings.HasPrefix(path, "/events") is
\* HasPrefix(path, <<"/events">>)
Paths ==
    {<<"/events">>, <<"/events", "/1">>, <<"/events", "x">>, <<"/event">>,
     <<"/tracking">>, <<"/">>}

Methods == {"GET", "POST", "PUT", "DELETE", "HEAD"}

\* the values of FIRESTORE_ADMIN_UID: set, or not set
AdminUIDs == {"admin", ""}

AuthRequests ==
    [Method : Methods, Path : Paths, Authorization : AuthHeaders]

\* step 1: the verification of the bearer token, when there is one
verify(r) ==
    IF r.Authorization.scheme = "Bearer "
    THEN VerifyIDToken(r.Authorization.idToken)
    ELSE [token |-> <<>>, err |-> FALSE]

\* token != nil && err == nil
isAuthenticated(r) == verify(r).token # <<>> /\ ~verify(r).err

\* what the middleware does with a request: forwarded tells whether
\* next.ServeHTTP ran, status is the status the middleware itself wrote
Answer(forwarded, status, accessType) ==
    [forwarded |-> forwarded, status |-> status, accessType |-> accessType]

\* a middleware that lets guests read every path
WithAuthProtection_GuestAnywhere(r, adminUID) ==
    IF r.Method # "GET" /\ (~isAuthenticated(r) \/ verify(r).token[1] # adminUID)
    THEN Answer(FALSE, StatusForbidden, "")
    ELSE IF isAuthenticated(r) THEN Answer(TRUE, 0, "")
    ELSE IF r.Method = "GET" THEN Answer(TRUE, 0, "Public-Preview")
    ELSE Answer(FALSE, StatusUnauthorized, "")

\* WithAuthProtection(next, authClient), for one request
WithAuthProtection(r, adminUID) ==
    IF r.Method # "GET" /\ (~isAuthenticated(r) \/ verify(r).token[1] # adminUID)
    THEN Answer(FALSE, StatusForbidden, "")
    ELSE IF isAuthenticated(r) THEN Answer(TRUE, 0, "")
    ELSE IF r.Method = "GET" /\ HasPrefix(r.Path, <<"/events">>)
         THEN Answer(TRUE, 0, "Public-Preview")
    ELSE Answer(FALSE, StatusUnauthorized, "")

\* a request arrives at the protected handler
AuthRequest(r, adminUID) ==
    /\ phase = "idle"
    /\ http' = [status |-> WithAuthProtection(r, adminUID).status,
                answer |-> WithAuthProtection(r, adminUID),
                request |-> r, adminUID |-> adminUID]
    /\ phase' = "auth"
    /\ UNCHANGED <<store, search, resp, pages, issuedPlan, repoCall, storeFault,
                   requests, stable>>
    /\ UNCHANGED entryVars

NextAuth ==
    \/ \E r \in AuthRequests : \E adminUID \in AdminUIDs : AuthRequest(r, adminUID)
    \/ Return

SpecAuth == Init /\ [][NextAuth]_vars

----------------------------------------------------------------------------
(* SpecUpdate: updates of every kind, given to the service *)

\* the empty map
NoFields == [n \in {} |-> 0]

\* the maps callers send: also none, and one that holds nothing but an id
UpdateMaps == UpdateInputs \cup {NoFields, [id |-> Str(<<2>>)]}

\* the ids callers name: also none
UpdateIds == DocKeys \cup {<<>>}

NextUpdate ==
    \/ \E e \in EventPool : CreateEvent(e)
    \/ \E id \in UpdateIds : \E u \in UpdateMaps : UpdateEvent(id, u)

SpecUpdate == Init /\ [][NextUpdate]_vars

\* C20: every call of UpdateEvent to the repository's Update has a non-empty
\* id and a non-empty map without the key id, and a request with an empty id
\* or with no fields gets a validation error and no repository call
C20_UpdateCallWellFormed ==
    /\ repoCall.op = "Update" =>
          /\ repoCall.id # <<>>
          /\ DOMAIN repoCall.updates # {}
          /\ "id" \notin DOMAIN repoCall.updates
    /\ ("updates" \in DOMAIN search /\ (search.id = <<>> \/ DOMAIN search.updates = {})) =>
          /\ resp.err \in {ErrIdRequired, ErrNoFields}
          /\ repoCall = NoCall

----------------------------------------------------------------------------
(* SpecCreate: events of every kind, given to the service's CreateEvent *)

\* the id uuid.New().String() gives: non-empty, and no id a caller names
NewIds == {<<MaxEvents + 1>>}

\* the instant time.Now().UTC() gives: never the zero time
Nows == {5}

\* the events callers pass: two of the pool, each also without id,
\* without creation time and without name
CreateInputs ==
    {[e EXCEPT !.Id = IF noId THEN Str(<<>>) ELSE @,
               !.CreatedAt = IF noTime THEN Time(0) ELSE @,
               !.EventName = IF noName THEN Str(<<>>) ELSE @] :
        e \in {EventFor(1), EventFor(2)},
        noId \in BOOLEAN, noTime \in BOOLEAN, noName \in BOOLEAN}

\* a caller of the service: eventService.CreateEvent with any event; search
\* holds what the caller passed, resp what it got back
CreateAny(e, uuid, now) ==
    /\ phase = "idle"
    /\ \E c \in {createEvent(store, e, uuid, now)} :
          /\ store' = c.store
          /\ repoCall' = c.call
          /\ resp' = [err |-> c.err]
    /\ search' = [event |-> e]
    /\ phase' = "idle"
    /\ pages' = <<>>
    /\ issuedPlan' = <<>>
    /\ http' = NoHttp
    /\ storeFault' = NoIterErr
    /\ requests' = 0
    /\ stable' = {}
    /\ UNCHANGED entryVars

NextCreate ==
    \/ \E e \in CreateInputs : \E uuid \in NewIds : \E now \in Nows :
          CreateAny(e, uuid, now)
    \/ \E id \in DOMAIN store : DeleteEvent(id)

SpecCreate == Init /\ [][NextCreate]_vars

\* C21: CreateEvent with an empty name returns 'event name is required' and
\* does not call Save; otherwise the event passed to Save has a non-empty id
\* and a non-zero creation time, and an id or creation time the caller
\* supplied is the one passed on
C21_CreateValidatedAndStamped ==
    "event" \in DOMAIN search =>
        IF search.event.EventName = Str(<<>>)
        THEN /\ resp.err = "event name is required"
             /\ repoCall = NoCall
        ELSE /\ resp.err = ""
             /\ repoCall.op = "Save"
             /\ repoCall.event[1].Id # Str(<<>>)
             /\ repoCall.event[1].CreatedAt # Time(0)
             /\ search.event.Id # Str(<<>>) => repoCall.event[1].Id = search.event.Id
             /\ search.event.CreatedAt # Time(0) =>
                   repoCall.event[1].CreatedAt = search.event.CreatedAt
             /\ repoCall.id \in DOMAIN store
             /\ DataTo(store[repoCall.id]) = repoCall.event[1]

\* C21 witness: an event with its own creation time and no id was saved
\* under a generated id, the time as the caller gave it
C21_Witness ==
    /\ "event" \in DOMAIN search
    /\ search.event.Id = Str(<<>>)
    /\ search.event.CreatedAt = Time(2)
    /\ repoCall.op = "Save"
    /\ repoCall.event[1].Id \in {Str(u) : u \in NewIds}
    /\ repoCall.event[1].CreatedAt = Time(2)

----------------------------------------------------------------------------
(* The values List hands to the store's seek *)

\* the arguments of q.StartAfter for a request: <<>> when List does not
\* seek (no token, or a token it rejects), else <<vals>>
seekValues(s) ==
    LET fields == sortFields(s.Filters, s.Sorting.SortKey)
        dec == decodeCursor(s.Sorting.PageToken)
    IN  IF s.Sorting.PageToken = EmptyToken THEN <<>>
        ELSE IF dec.err \/ cursorMismatch(dec.vals, fields) THEN <<>>
        ELSE <<retypeCursor(dec.vals, fields)>>

\* C22: for every token List accepts, the value handed to StartAfter at a
\* position of created_at, start_time or end_time is a time and never a
\* string, and the value at any other position is the token's value as it is
C22_TemporalSeekTyped ==
    (phase \in {"paging", "done", "stale"} /\ seekValues(search) # <<>>) =>
        \A i \in 1..Len(CurrentPlan) :
            IF CurrentPlan[i] \in TemporalFields
            THEN seekValues(search)[1][i].k = "time"
            ELSE seekValues(search)[1][i] = decodeCursor(search.Sorting.PageToken).vals[i]

----------------------------------------------------------------------------
(* The tokens List issues, under Spec *)

\* the request of the current pagination with the token List just issued
FollowUp == [search EXCEPT !.Sorting.PageToken = resp.nextToken]

\* C23: every next page token List issues decodes without error to as many
\* values as the plan has fields, the i-th being the last returned record's
\* value of the i-th plan field, and the token presented with the same
\* filters and sort key is rejected neither as invalid nor as mismatched
C23_IssuedTokenMatchesPlan ==
    (phase \in {"paging", "done"} /\ resp.nextToken # EmptyToken) =>
        LET dec == decodeCursor(resp.nextToken)
            last == resp.events[Len(resp.events)]
        IN  /\ ~dec.err
            /\ Len(dec.vals) = Len(issuedPlan)
            /\ \A i \in 1..Len(issuedPlan) :
                  /\ dec.vals[i] = jsonValue(store[last.Id.v][issuedPlan[i]])
                  /\ retypeCursor(dec.vals, issuedPlan)[i] =
                        store[last.Id.v][issuedPlan[i]]
            /\ sortFields(FollowUp.Filters, FollowUp.Sorting.SortKey) = issuedPlan
            /\ ListEvents(store, FollowUp).err \notin {ErrInvalidToken, ErrCursorMismatch}

\* C23 witness: the second page of a pagination under a plan of three
\* fields, city among them, came with a token
C23_Witness ==
    /\ phase = "paging"
    /\ search.Sorting.PageToken # EmptyToken
    /\ resp.nextToken # EmptyToken
    /\ Len(issuedPlan) = 3
    /\ "city" \in Range(issuedPlan)

----------------------------------------------------------------------------
(* SpecOrder: first pages in every direction a caller can name *)

\* the directions callers name: the two the API documents, none, and others
AnyDirections == {"asc", "desc", "", "DESC", "up"}

OrderSearches ==
    [Filters : {NoFilters, [NoFilters EXCEPT !.MinPrice = <<50>>]},
     Sorting : [SortKey : {"", "created_at", "price", "city"},
                SortDirection : AnyDirections,
                PageSize : {2, MaxEvents}, PageToken : {EmptyToken}]]

InitOrder ==
    /\ \E n \in 2..MaxEvents : store = StoreOfSize(n)
    /\ search = NoSearch
    /\ resp = NoResult
    /\ phase = "idle"
    /\ pages = <<>>
    /\ issuedPlan = <<>>
    /\ repoCall = NoCall
    /\ http = NoHttp
    /\ storeFault = NoIterErr
    /\ requests = 0
    /\ stable = {}
    /\ NotStarted

NextOrder ==
    \/ /\ phase = "idle"
       /\ \E s \in OrderSearches : ListAny(s, NoIterErr)
    \/ Return

SpecOrder == InitOrder /\ [][NextOrder]_vars

\* the first position at which two events differ on the fields of a plan
FirstDiff(a, b, plan) ==
    CHOOSE i \in 1..Len(plan) :
        /\ cursorValues(a, plan)[i] # cursorValues(b, plan)[i]
        /\ \A j \in 1..(i - 1) : cursorValues(a, plan)[j] = cursorValues(b, plan)[j]

\* C24: every OrderBy clause of a field other than id has the caller's
\* direction, descending exactly for 'desc' and ascending for every other
\* value; the clause of id is the last and ascending; and the returned
\* records follow: two neighbours differ first on a field where the earlier
\* one is the greater exactly when the field is not id and the direction is
\* 'desc'
C24_DirectionPerField ==
    phase = "repo" =>
        LET ob == orderBy(issuedPlan, search.Sorting.SortDirection)
            desc == search.Sorting.SortDirection = "desc"
        IN  /\ Len(ob) = Len(issuedPlan)
            /\ ob[Len(ob)] = [field |-> "id", dir |-> "asc"]
            /\ \A i \in 1..Len(ob) :
                  /\ ob[i].field = issuedPlan[i]
                  /\ ob[i].field # "id" => ob[i].dir = (IF desc THEN "desc" ELSE "asc")
            /\ \A n \in 1..(Len(resp.events) - 1) :
                  LET a == resp.events[n]
                      b == resp.events[n + 1]
                      i == FirstDiff(a, b, issuedPlan)
                      x == cursorValues(a, issuedPlan)[i]
                      y == cursorValues(b, issuedPlan)[i]
                  IN  IF desc /\ issuedPlan[i] # "id"
                      THEN ValLess(y, x) ELSE ValLess(x, y)

\* C24 witness: a descending page holds two events that tie on the creation
\* time, in ascending order of their ids, after an event created later
C24_Witness ==
    /\ phase = "repo"
    /\ search.Sorting.SortDirection = "desc"
    /\ issuedPlan = <<"created_at", "id">>
    /\ Len(resp.events) >= 3
    /\ \E n \in 1..(Len(resp.events) - 2) :
          /\ ValLess(resp.events[n + 1].CreatedAt, resp.events[n].CreatedAt)
          /\ resp.events[n + 1].CreatedAt = resp.events[n + 2].CreatedAt
          /\ ValLess(resp.events[n + 1].Id, resp.events[n + 2].Id)

----------------------------------------------------------------------------
(* The shape of the plan, under SpecRequests *)

\* the number of positions of a sequence that hold x
Count(seq, x) == Cardinality({i \in DOMAIN seq : seq[i] = x})

\* C25: whatever the filters and the requested key, the plan is not empty,
\* holds no field twice, holds id exactly once, and every other entry is a
\* key of validSorts; the query has one OrderBy clause per plan field
C25_PlanWellFormed ==
    phase = "repo" =>
        /\ issuedPlan = sortFields(search.Filters, search.Sorting.SortKey)
        /\ Len(issuedPlan) >= 1
        /\ \A x \in Range(issuedPlan) : Count(issuedPlan, x) = 1
        /\ Count(issuedPlan, "id") = 1
        /\ Range(issuedPlan) \ {"id"} \subseteq validSorts
        /\ Len(orderBy(issuedPlan, search.Sorting.SortDirection)) = Len(issuedPlan)

\* C25 witness: the key id was requested without a range filter, and the
\* query ran ordered by created_at and id
C25_Witness ==
    /\ phase = "repo"
    /\ search.Sorting.SortKey = "id"
    /\ RangeFields(search.Filters) = {}
    /\ issuedPlan = <<"created_at", "id">>
    /\ resp.queried
    /\ Len(resp.events) = 2

----------------------------------------------------------------------------
(* The length of a pagination, under Spec *)

----------------------------------------------------------------------------
(* List as a read-only, stateless round trip, under Spec *)

----------------------------------------------------------------------------
(* SpecConcurrent: other clients write between the page fetches *)

\* stable holds the ids of the documents stored, unchanged, since the first
\* fetch of the pagination followed

ConcurrentSearches ==
    [Filters : {NoFilters, [NoFilters EXCEPT !.MinPrice = <<50>>]},
     Sorting : [SortKey : {"created_at", "price"}, SortDirection : SortDirections,
                PageSize : PageSizes, PageToken : {EmptyToken}]]

InitConcurrent ==
    /\ \E n \in 2..MaxEvents : store = StoreOfSize(n)
    /\ search = NoSearch
    /\ resp = NoResult
    /\ phase = "idle"
    /\ pages = <<>>
    /\ issuedPlan = <<>>
    /\ repoCall = NoCall
    /\ http = NoHttp
    /\ storeFault = NoIterErr
    /\ requests = 0
    /\ stable = {}
    /\ NotStarted

\* eventRepo.Save by another client, between two fetches
ConcurrentSave(e) ==
    /\ phase = "paging"
    /\ store' = Save(store, e)
    /\ stable' = IF e.Id.v \in DOMAIN store /\ store[e.Id.v] = ToDoc(e)
                 THEN stable ELSE stable \ {e.Id.v}
    /\ UNCHANGED entryVars
    /\ UNCHANGED <<search, resp, phase, pages, issuedPlan, repoCall, http,
                   storeFault, requests>>

\* eventRepo.Delete by another client, between two fetches
ConcurrentDelete(id) ==
    /\ phase = "paging"
    /\ id \in DOMAIN store
    /\ store' = Delete(store, id)
    /\ stable' = stable \ {id}
    /\ UNCHANGED entryVars
    /\ UNCHANGED <<search, resp, phase, pages, issuedPlan, repoCall, http,
                   storeFault, requests>>

NextConcurrent ==
    \/ /\ phase = "idle"
       /\ \E s \in ConcurrentSearches : ListFirst(s)
    \/ ListNext
    \/ /\ phase = "paging"
       /\ \E e \in EventPool : ConcurrentSave(e)
    \/ \E id \in DOMAIN store : ConcurrentDelete(id)
    \/ EndPagination

SpecConcurrent == InitConcurrent /\ [][NextConcurrent]_vars

\* how often the pages followed so far hold an event
Times(e) == Cardinality({i \in 1..Len(pages) : pages[i] = e})

----------------------------------------------------------------------------
(* SpecEntry: the lazily initialised entry point (package function) *)

\* the handler setupApplication builds outside production: the wrapper
\* around the middleware chain
Wrapper == "wrapper"

\* the values of APP_ENV
AppEnvs == {"production", "", "development"}

\* the value of functionHandler when setupApplication returns
setupApplication(handler, env) ==
    IF (env = "production") = FALSE THEN Wrapper ELSE handler

InitEntry ==
    /\ store = <<>>
    /\ search = NoSearch
    /\ resp = NoResult
    /\ phase = "idle"
    /\ pages = <<>>
    /\ issuedPlan = <<>>
    /\ repoCall = NoCall
    /\ http = NoHttp
    /\ storeFault = NoIterErr
    /\ requests = 0
    /\ stable = {}
    /\ functionHandler = Nil
    /\ initOnce = "new"
    /\ pc = [r \in Requests |-> "idle"]
    /\ appEnv \in AppEnvs
    /\ setupRuns = 0

\* a request enters the registered function
Arrive(r) ==
    /\ pc[r] = "idle"
    /\ pc' = [pc EXCEPT ![r] = "once"]
    /\ UNCHANGED <<functionHandler, initOnce, appEnv, setupRuns>>
    /\ UNCHANGED coreVars

\* initOnce.Do: the first caller runs setupApplication, a caller that comes
\* while it runs waits, a later caller returns at once
OnceDo(r) ==
    /\ pc[r] = "once"
    /\ initOnce # "running"
    /\ IF initOnce = "new"
       THEN /\ initOnce' = "running"
            /\ setupRuns' = setupRuns + 1
            /\ pc' = [pc EXCEPT ![r] = "setup"]
       ELSE /\ pc' = [pc EXCEPT ![r] = "delegate"]
            /\ UNCHANGED <<initOnce, setupRuns>>
    /\ UNCHANGED <<functionHandler, appEnv>>
    /\ UNCHANGED coreVars

\* setupApplication returns and initOnce.Do with it
SetupReturn(r) ==
    /\ pc[r] = "setup"
    /\ functionHandler' = setupApplication(functionHandler, appEnv)
    /\ initOnce' = "done"
    /\ pc' = [pc EXCEPT ![r] = "delegate"]
    /\ UNCHANGED <<appEnv, setupRuns>>
    /\ UNCHANGED coreVars

\* setupApplication panics (a client could not be created); sync.Once counts
\* the call as made
SetupPanic(r) ==
    /\ pc[r] = "setup"
    /\ initOnce' = "done"
    /\ pc' = [pc EXCEPT ![r] = "setupPanic"]
    /\ UNCHANGED <<functionHandler, appEnv, setupRuns>>
    /\ UNCHANGED coreVars

\* functionHandler.ServeHTTP(w, r): a call on the nil handler panics
Delegate(r) ==
    /\ pc[r] = "delegate"
    /\ pc' = [pc EXCEPT ![r] = IF functionHandler = Nil THEN "nilPanic" ELSE "served"]
    /\ UNCHANGED <<functionHandler, initOnce, appEnv, setupRuns>>
    /\ UNCHANGED coreVars

\* the request is over
Leave(r) ==
    /\ pc[r] \in {"served", "nilPanic"}
    /\ pc' = [pc EXCEPT ![r] = "idle"]
    /\ UNCHANGED <<functionHandler, initOnce, appEnv, setupRuns>>
    /\ UNCHANGED coreVars

NextEntry ==
    \E r \in Requests :
        \/ Arrive(r)
        \/ OnceDo(r)
        \/ SetupReturn(r)
        \/ SetupPanic(r)
        \/ Delegate(r)
        \/ Leave(r)

SpecEntry == InitEntry /\ [][NextEntry]_vars

\* C29: setupApplication is run at most once, by the first request, however
\* many first requests arrive together; no request is delegated before
\* initOnce.Do is done; and once setupApplication has returned,
\* functionHandler is not nil, whatever APP_ENV is, and no delegation fails
C29_LazyInitOnce ==
    /\ setupRuns <= 1
    /\ setupRuns = 1 <=> initOnce # "new"
    /\ \A r \in Requests :
          pc[r] \in {"delegate", "served", "nilPanic"} => initOnce = "done"
    /\ (initOnce = "done" /\ \A r \in Requests : pc[r] # "setupPanic") =>
          /\ functionHandler # Nil
          /\ \A r \in Requests : pc[r] # "nilPanic"

----------------------------------------------------------------------------
(* SpecErrors: the statuses the transport layer answers errors with *)

\* the errors handlers pass to respondError: validation errors and others,
\* with the texts of the service and the repository
ErrorTexts ==
    {ErrNotFound, "Event not found", ErrInvalidToken, ErrCursorMismatch, ErrStore,
     ErrNameRequired, ErrIdRequired}

Errors == {ValidationError(t) : t \in ErrorTexts} \cup {PlainError(t) : t \in ErrorTexts}

\* list queries with every kind of page token: none, not base64, base64 of
\* null and of an object, and cursors of two and of three values
TokenQueries ==
    [page_size : {[kind |-> "absent", n |-> 0], [kind |-> "int", n |-> 2]},
     sort_key : {"", "price"}, sort_dir : {"", "desc"},
     page_token : {EmptyToken, GarbageToken, NullToken, ObjectToken,
                   encodeCursor(<<Time(2), Str(<<1>>)>>),
                   encodeCursor(<<Num(50), Time(2), Str(<<1>>)>>)},
     filters : {NoFilters}]

\* a handler passes an error to respondError
RespondError(err) ==
    /\ phase = "idle"
    /\ http' = [status |-> respondError(err), err |-> err]
    /\ phase' = "handler"
    /\ UNCHANGED <<store, search, resp, pages, issuedPlan, repoCall, storeFault,
                   requests, stable>>
    /\ UNCHANGED entryVars

NextErrors ==
    \/ /\ phase = "idle"
       /\ \E err \in Errors : RespondError(err)
    \/ /\ phase = "idle"
       /\ \E q \in TokenQueries : HandleList(q)
    \/ Return

SpecErrors == InitRequests /\ [][NextErrors]_vars

\* C30: respondError answers a ValidationError, and nothing else, with 400,
\* any other error with the text 'event not found', and nothing else, with
\* 404, and every other error with 500; so a list request whose token the
\* repository rejects as invalid or mismatched is answered with 500
C30_ErrorStatus ==
    phase = "handler" =>
        /\ "err" \in DOMAIN http =>
              /\ http.status = 400 <=> http.err.kind = "validation"
              /\ http.status = 404 <=>
                    (http.err.kind # "validation" /\ http.err.text = "event not found")
              /\ http.status \in {400, 404, 500}
        /\ ("query" \in DOMAIN http /\ resp.err \in {ErrInvalidToken, ErrCursorMismatch}) =>
              http.status = 500

\* C30 witness: a list request with the base64 text of a JSON object as its
\* token passed the handler's validation, was rejected by the repository as
\* an invalid page token and answered with 500
C30_Witness ==
    /\ phase = "handler"
    /\ "query" \in DOMAIN http
    /\ http.query.page_token = ObjectToken
    /\ repoCall.op = "List"
    /\ resp.err = ErrInvalidToken
    /\ http.status = 500

====
